---- MODULE Spec2Model ----
(***************************************************************************)
(* Access requests for records (invenio_rdm_records/requests/access).     *)
(*                                                                         *)
(* The model follows one action invocation at a time through the steps of  *)
(* its execute() method.  The hosting request framework (legal source      *)
(* states of an action, the database transaction around an action and the  *)
(* unit-of-work that runs registered operations after the commit) is a     *)
(* collaborator of this code and is modelled from its stated contract.     *)
(***************************************************************************)
EXTENDS Integers, Sequences, FiniteSets, TLC

\* ------------------------------------------------------------------ bounds
MaxRequests == 2

RequestIds == 1..MaxRequests

\* ------------------------------------------------------------------ values
Variants == {"user", "guest"}

SystemIdentity == "system_identity"

\* the identity that invokes the actions from outside (the receiver or the
\* creator of the request; never the system identity)
Callers == {"receiver"}

ActionNames ==
    {"create", "submit", "delete", "accept", "cancel", "decline", "expire"}

TerminalStates == {"accepted", "declined", "cancelled", "expired"}

NoTitle == "<unset>"

RecordTitle == "title-of-record"

\* ------------------------------------------------------------------ state
VARIABLES
    variant,    \* request id -> "user" | "guest" | "none" (type_id of the request)
    status,     \* request id -> committed status of the request
    title,      \* request id -> committed request["title"]
    links,      \* committed secret links, in creation order
    grants,     \* committed grants, in creation order
    comments,   \* committed comment events of the requests, in creation order
    tx,         \* uncommitted changes of the action in progress
    uow,        \* operations registered with the unit-of-work of the action
    pc,         \* position of the action in progress ("idle" between actions)
    cur,        \* the action in progress: request, action name, identity
    opIdx,      \* index of the next registered operation to run after commit
    executed,   \* log of the operations run after a commit, in execution order
    result,     \* what the caller of the last action got back
    lk,         \* inputs and output of one evaluation of the link configuration
    payload,    \* request id -> request["payload"] as loaded at creation
    today,      \* the current UTC date, in days
    recordTitle,\* metadata["title"] of the topic record
    pl,         \* input and outcome of one load of a guest payload
    st          \* inputs and output of one call of get_record_stats

vars ==
    << variant, status, title, links, grants, comments, tx, uow, pc, cur,
       opIdx, executed, result, lk, payload, today, recordTitle, pl, st >>

\* what the actions on an existing request leave alone
envVars == << payload, today, recordTitle, pl, st >>

dbVars == << variant, status, title, links, grants, comments >>

EmptyTx ==
    [status |-> "unchanged", title |-> NoTitle,
     links |-> << >>, grants |-> << >>, comments |-> << >>]

NoAction == [req |-> 0, action |-> "none", identity |-> "none", failedAt |-> "none"]

NoResult == [req |-> 0, action |-> "none", outcome |-> "none", failedAt |-> "none"]

NoLink ==
    [variant |-> "none", hasG |-> FALSE, gAuth |-> FALSE, ctx |-> "absent",
     ui |-> "none", out |-> "unset"]

NoPayload == [permission |-> "none"]

NoLoad ==
    [value |-> << >>,
     out |-> [error |-> "unset", message |-> "", field_name |-> ""]]

NoStats ==
    [q |-> << >>, done |-> FALSE,
     out |-> [outcome |-> "none", stats |-> << >>]]

\* everything outside the requests before anything happened
InitEnv ==
    /\ payload = [r \in RequestIds |-> NoPayload]
    /\ today = 0
    /\ recordTitle = RecordTitle
    /\ pl = NoLoad
    /\ st = NoStats

Init ==
    /\ variant = [r \in RequestIds |-> "none"]
    /\ status = [r \in RequestIds |-> "absent"]
    /\ title = [r \in RequestIds |-> NoTitle]
    /\ links = << >>
    /\ grants = << >>
    /\ comments = << >>
    /\ tx = EmptyTx
    /\ uow = << >>
    /\ pc = "idle"
    /\ cur = NoAction
    /\ opIdx = 1
    /\ executed = << >>
    /\ result = NoResult
    /\ lk = NoLink
    /\ InitEnv

\* available_actions of the user-origin request type with the decline entry
\* bound to the accept action of the type
UserAccessRequest_available_actions_decline_as_accept ==
    [create |-> "CreateAction", submit |-> "UserSubmitAction",
     delete |-> "DeleteAction", accept |-> "UserAcceptAction",
     cancel |-> "CancelAction", decline |-> "UserAcceptAction",
     expire |-> "ExpireAction"]

\* ------------------------------------------------------- request types
\* available_actions of the user-origin request type
UserAccessRequest_available_actions ==
    [create |-> "CreateAction", submit |-> "UserSubmitAction",
     delete |-> "DeleteAction", accept |-> "UserAcceptAction",
     cancel |-> "CancelAction", decline |-> "DeclineAction",
     expire |-> "ExpireAction"]

\* available_actions of the guest-origin request type with the decline
\* entry bound to the cancel action
GuestAccessRequest_available_actions_decline_as_cancel ==
    [create |-> "CreateAction", submit |-> "GuestSubmitAction",
     delete |-> "DeleteAction", accept |-> "GuestAcceptAction",
     cancel |-> "CancelAction", decline |-> "CancelAction",
     expire |-> "ExpireAction"]

\* available_actions of the guest-origin request type
GuestAccessRequest_available_actions ==
    [create |-> "CreateAction", submit |-> "GuestSubmitAction",
     delete |-> "DeleteAction", accept |-> "GuestAcceptAction",
     cancel |-> "CancelAction", decline |-> "DeclineAction",
     expire |-> "ExpireAction"]

available_actions(v) ==
    IF v = "guest" THEN GuestAccessRequest_available_actions
    ELSE UserAccessRequest_available_actions

\* the implementation the framework dispatches to for action a of request r
Implementation(r, a) == available_actions(variant[r])[a]

\* UserAcceptAction derived from the submit action of the framework
BaseClass_accept_from_submit(impl) ==
    CASE impl \in {"UserSubmitAction", "GuestSubmitAction", "UserAcceptAction"}
           -> "SubmitAction"
      [] impl = "GuestAcceptAction" -> "AcceptAction"
      [] OTHER -> impl

\* the framework action class an implementation derives from
BaseClass(impl) ==
    CASE impl \in {"UserSubmitAction", "GuestSubmitAction"} -> "SubmitAction"
      [] impl \in {"UserAcceptAction", "GuestAcceptAction"} -> "AcceptAction"
      [] OTHER -> impl

\* ------------------------------------------------ framework (contract)
\* states from which the framework lets an action of a class run
StatusFrom(cls) ==
    CASE cls = "SubmitAction" -> {"created"}
      [] cls = "DeleteAction" -> {"created"}
      [] cls \in {"AcceptAction", "CancelAction", "DeclineAction",
                  "ExpireAction"} -> {"submitted"}
      [] OTHER -> {}

\* state the default transition of an action class moves the request to
StatusTo(cls) ==
    CASE cls = "SubmitAction" -> "submitted"
      [] cls = "DeleteAction" -> "removed"
      [] cls = "AcceptAction" -> "accepted"
      [] cls = "CancelAction" -> "cancelled"
      [] cls = "DeclineAction" -> "declined"
      [] cls = "ExpireAction" -> "expired"
      [] OTHER -> "created"

\* first step of execute() of an implementation
FirstStep(impl) ==
    CASE impl \in {"UserSubmitAction", "GuestSubmitAction"} -> "submit_resolve"
      [] impl = "GuestAcceptAction" -> "g_read"
      [] impl = "UserAcceptAction" -> "u_creator"
      [] OTHER -> "super"

\* the status the request object has inside the running action
ReqStatus(r) ==
    IF pc \notin {"idle", "returned"} /\ cur.req = r /\ tx.status # "unchanged"
    THEN tx.status ELSE status[r]

\* an exception leaves execute(): the step that raised is remembered
Raise(step) ==
    /\ pc' = "raised"
    /\ cur' = [cur EXCEPT !.failedAt = step]

\* ------------------------------------------------------------ payload
\* strings are sequences of characters
Digits == {"0", "1", "2", "3", "4", "5", "6", "7", "8", "9"}

DigitValue(c) ==
    CASE c = "0" -> 0 [] c = "1" -> 1 [] c = "2" -> 2 [] c = "3" -> 3
      [] c = "4" -> 4 [] c = "5" -> 5 [] c = "6" -> 6 [] c = "7" -> 7
      [] c = "8" -> 8 [] c = "9" -> 9

RECURSIVE StripLeft(_)
StripLeft(s) ==
    IF s # << >> /\ Head(s) = " " THEN StripLeft(Tail(s)) ELSE s

RECURSIVE StripRight(_)
StripRight(s) ==
    IF s # << >> /\ s[Len(s)] = " "
    THEN StripRight(SubSeq(s, 1, Len(s) - 1)) ELSE s

RECURSIVE DecimalValue(_)
DecimalValue(s) ==
    IF s = << >> THEN 0
    ELSE 10 * DecimalValue(SubSeq(s, 1, Len(s) - 1)) + DigitValue(s[Len(s)])

\* int(value) of Python on a string: blanks around it are dropped, one sign
\* may lead, at least one digit must follow and nothing else; otherwise
\* ValueError (ok = FALSE)
PyInt(s) ==
    LET t == StripRight(StripLeft(s))
        signed == t # << >> /\ Head(t) \in {"-", "+"}
        body == IF signed THEN Tail(t) ELSE t
    IN  IF body # << >> /\ \A i \in DOMAIN body : body[i] \in Digits
        THEN [ok |-> TRUE,
              value |-> IF signed /\ Head(t) = "-"
                        THEN 0 - DecimalValue(body) ELSE DecimalValue(body)]
        ELSE [ok |-> FALSE, value |-> 0]

NoError == [error |-> "none", message |-> "", field_name |-> ""]

\* the validator refusing zero as well
GuestAccessRequest_validate_days_positive_only(value) ==
    LET i == PyInt(value)
    IN  IF i.ok /\ i.value > 0
        THEN NoError
        ELSE [error |-> "ValidationError",
              message |-> "Not a valid number of days.",
              field_name |-> "secret_link_expiration"]

\* GuestAccessRequest._validate_days(value)
GuestAccessRequest_validate_days(value) ==
    LET i == PyInt(value)
    IN  IF i.ok
        THEN IF i.value < 0
             THEN [error |-> "ValidationError",
                   message |-> "Not a valid number of days.",
                   field_name |-> "secret_link_expiration"]
             ELSE NoError
        ELSE [error |-> "ValidationError",
              message |-> "Not a valid number of days.",
              field_name |-> "secret_link_expiration"]

\* the payload of a new request is loaded through the payload schema of its
\* type; for a guest request the validator of secret_link_expiration runs
PayloadSchema_load(v, p) ==
    IF v = "guest"
    THEN GuestAccessRequest_validate_days(p.secret_link_expiration)
    ELSE NoError

\* the payload the requests of a type are created with when only their life
\* cycle is followed
DefaultPayload(v) ==
    IF v = "guest"
    THEN [permission |-> "view", full_name |-> "A B", email |-> "a@b.com",
          secret_link_expiration |-> << "7" >>]
    ELSE [permission |-> "view"]

\* the create action: a new request of one of the two types, state Created
Create(r, v, p) ==
    /\ pc = "idle"
    /\ status[r] = "absent"
    /\ \A q \in RequestIds : q < r => status[q] # "absent"
    /\ status' = [status EXCEPT ![r] = "created"]
    /\ PayloadSchema_load(v, p) = NoError
    /\ variant' = [variant EXCEPT ![r] = v]
    /\ payload' = [payload EXCEPT ![r] = p]
    /\ UNCHANGED << title, links, grants, comments, tx, uow, pc, cur, opIdx,
                    executed, result, lk, today, recordTitle, pl, st >>

\* a create whose payload does not pass the payload schema: the caller gets
\* the validation error and no request exists
Create_invalid(r, v, p) ==
    /\ pc = "idle"
    /\ status[r] = "absent"
    /\ \A q \in RequestIds : q < r => status[q] # "absent"
    /\ PayloadSchema_load(v, p) # NoError
    /\ result' = [req |-> r, action |-> "create", outcome |-> "invalid",
                  failedAt |-> "validation"]
    /\ pc' = "returned"
    /\ UNCHANGED << dbVars, tx, uow, cur, opIdx, executed, lk, envVars >>

\* the framework receives an action: it is refused when the request is not
\* in a state that permits it, otherwise execute() of the implementation runs
\* inside a fresh transaction with a fresh unit-of-work
Invoke(r, a, id) ==
    /\ pc = "idle"
    /\ status[r] \notin {"absent", "removed"}
    /\ a \in DOMAIN available_actions(variant[r])
    /\ a # "create"
    /\ IF status[r] \in StatusFrom(BaseClass(Implementation(r, a)))
       THEN /\ pc' = FirstStep(Implementation(r, a))
            /\ cur' = [req |-> r, action |-> a, identity |-> id,
                       failedAt |-> "none"]
            /\ tx' = EmptyTx
            /\ uow' = << >>
            /\ opIdx' = 1
            /\ UNCHANGED result
       ELSE /\ result' = [req |-> r, action |-> a, outcome |-> "rejected",
                          failedAt |-> "none"]
            /\ pc' = "returned"
            /\ UNCHANGED << cur, tx, uow, opIdx >>
    /\ UNCHANGED << dbVars, executed, lk, envVars >>

\* ------------------------------------------------------------- submit
\* UserSubmitAction.execute / GuestSubmitAction.execute, up to super():
\* the topic is resolved and its title is copied into the request
SubmitAction_resolve ==
    /\ pc = "submit_resolve"
    /\ \E ok \in BOOLEAN :
         IF ok
         THEN /\ tx' = [tx EXCEPT !.title = recordTitle]
              /\ pc' = "super"
              /\ UNCHANGED cur
         ELSE /\ Raise("resolve_topic")
              /\ UNCHANGED tx
    /\ UNCHANGED << dbVars, uow, opIdx, executed, result, lk, envVars >>

\* super().execute(identity, uow): the default transition of the action
Action_super_execute ==
    /\ pc = "super"
    /\ \E ok \in BOOLEAN :
         IF ok
         THEN /\ tx' = [tx EXCEPT !.status =
                            StatusTo(BaseClass(Implementation(cur.req, cur.action)))]
              /\ pc' = IF Implementation(cur.req, cur.action) = "GuestAcceptAction"
                       THEN "g_comment" ELSE "commit"
              /\ UNCHANGED cur
         ELSE /\ Raise("transition")
              /\ UNCHANGED tx
    /\ UNCHANGED << dbVars, uow, opIdx, executed, result, lk, envVars >>

\* ------------------------------------------------------ accept (guest)
NoUrl == [self_html |-> "none", token |-> 0]

RecordSelfHtml == "self_html-of-record"

\* payload fields of a request, as stored at creation
Payload(r) == payload[r]

\* the user a user-origin request was created by
Creator(r) == r

\* token the access service gives the next secret link
NextToken == Len(links) + Len(tx.links) + 1

\* the parent commit operation registered before the record is read
GuestAcceptAction_read_after_register ==
    /\ pc = "g_read"
    /\ uow' = Append(uow, [kind |-> "ParentRecordCommitOp", req |-> cur.req,
                           url |-> NoUrl])
    /\ \E ok \in BOOLEAN :
         IF ok
         THEN /\ pc' = "g_link"
              /\ UNCHANGED cur
         ELSE Raise("resolve_topic")
    /\ UNCHANGED << dbVars, tx, opIdx, executed, result, lk, envVars >>

\* the accept of a guest request copying the title of the record it reads
\* into the request again
GuestAcceptAction_read_restamps_title ==
    /\ pc = "g_read"
    /\ \E ok \in BOOLEAN :
         IF ok
         THEN /\ tx' = [tx EXCEPT !.title = recordTitle]
              /\ pc' = "g_link"
              /\ UNCHANGED cur
         ELSE /\ Raise("resolve_topic")
              /\ UNCHANGED tx
    /\ UNCHANGED << dbVars, uow, opIdx, executed, result, lk, envVars >>

\* service.read(id_=..., identity=system_identity)
GuestAcceptAction_read ==
    /\ pc = "g_read"
    /\ \E ok \in BOOLEAN :
         IF ok
         THEN /\ pc' = "g_link"
              /\ UNCHANGED cur
         ELSE Raise("resolve_topic")
    /\ UNCHANGED << dbVars, tx, uow, opIdx, executed, result, lk, envVars >>

\* the identity create_secret_link is called with
GuestAcceptAction_link_identity == cur.identity

\* days = int(payload["secret_link_expiration"])
GuestAcceptAction_days(r) == PyInt(Payload(r).secret_link_expiration)

\* the expiration counted from day 0 instead of from today
GuestAcceptAction_expires_at_not_from_today(days) == days

\* (datetime.utcnow() + timedelta(days=days)).date().isoformat()
GuestAcceptAction_expires_at(days) == today + days

\* the secret link of the call: data built from the payload of the request
\* (permission, description, origin and, if days is not zero, expires_at),
\* with the identity the call is made with and the token the service gives
\* the link
GuestAcceptAction_data(r) ==
    LET days == GuestAcceptAction_days(r).value
        data == [permission |-> Payload(r).permission,
                 description |-> << "Requested by guest: ",
                                    Payload(r).full_name,
                                    " (", Payload(r).email, ")" >>,
                 origin |-> r,
                 identity |-> GuestAcceptAction_link_identity,
                 token |-> NextToken]
    IN  IF days # 0
        THEN data @@ [expires_at |-> GuestAcceptAction_expires_at(days)]
        ELSE data

\* the access service stores a secret link, dated today, within the current
\* transaction
AccessService_create_secret_link(data) ==
    tx' = [tx EXCEPT !.links = Append(@, data @@ [created_at |-> today])]

\* link = service.access.create_secret_link(identity, record.id, data),
\* after the conversion of the days, which raises ValueError on a string
\* that is no integer
GuestAcceptAction_create_secret_link ==
    /\ pc = "g_link"
    /\ IF GuestAcceptAction_days(cur.req).ok
       THEN \E ok \in BOOLEAN :
              IF ok
              THEN /\ AccessService_create_secret_link(
                          GuestAcceptAction_data(cur.req))
                   /\ pc' = "g_reg_parent"
                   /\ UNCHANGED cur
              ELSE /\ Raise("issue")
                   /\ UNCHANGED tx
       ELSE /\ Raise("days")
            /\ UNCHANGED tx
    /\ UNCHANGED << dbVars, uow, opIdx, executed, result, lk, envVars >>

\* the access URL made with the id of the request in the place of the token
\* of the link
GuestAcceptAction_access_url_with_request_id ==
    [self_html |-> RecordSelfHtml, token |-> cur.req]

\* access_url = f"{record.links['self_html']}?token={link._link.token}"
GuestAcceptAction_access_url ==
    [self_html |-> RecordSelfHtml, token |-> tx.links[Len(tx.links)].token]

\* the state of the request flipped to Accepted while the first operation
\* is registered, before the notification is
GuestAcceptAction_register_parent_after_transition ==
    /\ pc = "g_reg_parent"
    /\ tx' = [tx EXCEPT !.status = "accepted"]
    /\ uow' = Append(uow, [kind |-> "ParentRecordCommitOp", req |-> cur.req,
                           url |-> NoUrl])
    /\ pc' = "g_reg_notif"
    /\ UNCHANGED << dbVars, cur, opIdx, executed, result, lk, envVars >>

\* uow.register(ParentRecordCommitOp(record._record.parent, ...))
GuestAcceptAction_register_parent ==
    /\ pc = "g_reg_parent"
    /\ uow' = Append(uow, [kind |-> "ParentRecordCommitOp", req |-> cur.req,
                           url |-> NoUrl])
    /\ pc' = "g_reg_notif"
    /\ UNCHANGED << dbVars, tx, cur, opIdx, executed, result, lk, envVars >>

\* the notification dispatched on the spot instead of being registered with
\* the unit-of-work
GuestAcceptAction_register_notification_direct ==
    /\ pc = "g_reg_notif"
    /\ \E ok \in BOOLEAN :
         IF ok
         THEN /\ executed' = Append(executed,
                                [kind |-> "NotificationOp", req |-> cur.req,
                                 url |-> GuestAcceptAction_access_url,
                                 ok |-> TRUE])
              /\ pc' = "super"
              /\ UNCHANGED cur
         ELSE /\ Raise("notification")
              /\ UNCHANGED executed
    /\ UNCHANGED << dbVars, tx, uow, opIdx, result, lk, envVars >>

\* uow.register(NotificationOp(GuestAccessRequestAcceptNotificationBuilder
\*     .build(self.request, access_url=access_url)))
GuestAcceptAction_register_notification ==
    /\ pc = "g_reg_notif"
    /\ \E ok \in BOOLEAN :
         IF ok
         THEN /\ uow' = Append(uow, [kind |-> "NotificationOp", req |-> cur.req,
                                     url |-> GuestAcceptAction_access_url])
              /\ pc' = "super"
              /\ UNCHANGED cur
         ELSE /\ Raise("notification")
              /\ UNCHANGED uow
    /\ UNCHANGED << dbVars, tx, opIdx, executed, result, lk, envVars >>

\* current_events_service.create(identity, request_id, data, CommentEventType,
\* uow=uow, notify=...): the comment joins the transaction; the events service
\* registers a notification of the comment unless notify is False
EventsService_create(identity, r, url, notify) ==
    /\ tx' = [tx EXCEPT !.comments =
                 Append(@, [req |-> r, author |-> identity, url |-> url,
                            notify |-> notify])]
    /\ uow' = IF notify
              THEN Append(uow, [kind |-> "NotificationOp", req |-> r,
                                url |-> NoUrl])
              ELSE uow

\* the confirmation comment treated as best effort: a failure to create it
\* is swallowed and the action goes on
GuestAcceptAction_create_comment_swallow ==
    /\ pc = "g_comment"
    /\ \E ok \in BOOLEAN :
         IF ok
         THEN /\ EventsService_create(SystemIdentity, cur.req,
                                      GuestAcceptAction_access_url, FALSE)
              /\ pc' = "commit"
              /\ UNCHANGED cur
         ELSE /\ cur' = [cur EXCEPT !.failedAt = "comment"]
              /\ pc' = "commit"
              /\ UNCHANGED << tx, uow >>
    /\ UNCHANGED << dbVars, opIdx, executed, result, lk, envVars >>

\* the confirmation comment created without notify=False
GuestAcceptAction_create_comment_notify ==
    /\ pc = "g_comment"
    /\ \E ok \in BOOLEAN :
         IF ok
         THEN /\ EventsService_create(SystemIdentity, cur.req,
                                      GuestAcceptAction_access_url, TRUE)
              /\ pc' = "commit"
              /\ UNCHANGED cur
         ELSE /\ Raise("comment")
              /\ UNCHANGED << tx, uow >>
    /\ UNCHANGED << dbVars, opIdx, executed, result, lk, envVars >>

\* the confirmation comment with the access URL, after the transition
GuestAcceptAction_create_comment ==
    /\ pc = "g_comment"
    /\ \E ok \in BOOLEAN :
         IF ok
         THEN /\ EventsService_create(SystemIdentity, cur.req,
                                      GuestAcceptAction_access_url, FALSE)
              /\ pc' = "commit"
              /\ UNCHANGED cur
         ELSE /\ Raise("comment")
              /\ UNCHANGED << tx, uow >>
    /\ UNCHANGED << dbVars, opIdx, executed, result, lk, envVars >>

\* ------------------------------------------------------- accept (user)
\* creator = self.request.created_by.resolve()
UserAcceptAction_resolve_creator ==
    /\ pc = "u_creator"
    /\ \E ok \in BOOLEAN :
         IF ok
         THEN /\ pc' = "u_topic"
              /\ UNCHANGED cur
         ELSE Raise("resolve_creator")
    /\ UNCHANGED << dbVars, tx, uow, opIdx, executed, result, lk, envVars >>

\* record = self.request.topic.resolve()
UserAcceptAction_resolve_topic ==
    /\ pc = "u_topic"
    /\ \E ok \in BOOLEAN :
         IF ok
         THEN /\ pc' = "u_grant"
              /\ UNCHANGED cur
         ELSE Raise("resolve_topic")
    /\ UNCHANGED << dbVars, tx, uow, opIdx, executed, result, lk, envVars >>

\* the identity create_grant is called with
UserAcceptAction_grant_identity == SystemIdentity

\* the grant of a user request made out to the identity that invokes the
\* accept instead of the creator of the request
UserAcceptAction_data_subject_is_caller(r) ==
    [permission |-> Payload(r).permission,
     subject |-> [type |-> "user", id |-> cur.identity],
     origin |-> r,
     identity |-> UserAcceptAction_grant_identity]

\* the grant of the call: data built from the payload and the creator of
\* the request (permission, subject with str(creator.id), origin), with the
\* identity the call is made with
UserAcceptAction_data(r) ==
    [permission |-> Payload(r).permission,
     subject |-> [type |-> "user", id |-> ToString(Creator(r))],
     origin |-> r,
     identity |-> UserAcceptAction_grant_identity]

\* the access service stores a grant within the current transaction
AccessService_create_grant(data) ==
    tx' = [tx EXCEPT !.grants = Append(@, data)]

\* the accept of a user request with the call of create_grant left out
UserAcceptAction_create_grant_omitted ==
    /\ pc = "u_grant"
    /\ pc' = "u_reg_parent"
    /\ UNCHANGED << dbVars, tx, cur, uow, opIdx, executed, result, lk, envVars >>

\* service.access.create_grant(system_identity, record.pid.pid_value, data)
UserAcceptAction_create_grant ==
    /\ pc = "u_grant"
    /\ \E ok \in BOOLEAN :
         IF ok
         THEN /\ AccessService_create_grant(UserAcceptAction_data(cur.req))
              /\ pc' = "u_reg_parent"
              /\ UNCHANGED cur
         ELSE /\ Raise("issue")
              /\ UNCHANGED tx
    /\ UNCHANGED << dbVars, uow, opIdx, executed, result, lk, envVars >>

\* uow.register(ParentRecordCommitOp(record.parent, ...))
UserAcceptAction_register_parent ==
    /\ pc = "u_reg_parent"
    /\ uow' = Append(uow, [kind |-> "ParentRecordCommitOp", req |-> cur.req,
                           url |-> NoUrl])
    /\ pc' = "u_reg_notif"
    /\ UNCHANGED << dbVars, tx, cur, opIdx, executed, result, lk, envVars >>

\* uow.register(NotificationOp(UserAccessRequestAcceptNotificationBuilder
\*     .build(self.request)))
UserAcceptAction_register_notification ==
    /\ pc = "u_reg_notif"
    /\ \E ok \in BOOLEAN :
         IF ok
         THEN /\ uow' = Append(uow, [kind |-> "NotificationOp", req |-> cur.req,
                                     url |-> NoUrl])
              /\ pc' = "super"
              /\ UNCHANGED cur
         ELSE /\ Raise("notification")
              /\ UNCHANGED uow
    /\ UNCHANGED << dbVars, tx, opIdx, executed, result, lk, envVars >>

\* --------------------------------------- transaction and unit-of-work
\* the transaction of the action commits: its changes become the stored state
UnitOfWork_commit ==
    /\ pc = "commit"
    /\ \E ok \in BOOLEAN :
         IF ok
         THEN /\ status' = IF tx.status = "unchanged" THEN status
                           ELSE [status EXCEPT ![cur.req] = tx.status]
              /\ title' = IF tx.title = NoTitle THEN title
                          ELSE [title EXCEPT ![cur.req] = tx.title]
              /\ links' = links \o tx.links
              /\ grants' = grants \o tx.grants
              /\ comments' = comments \o tx.comments
              /\ tx' = EmptyTx
              /\ pc' = "post"
              /\ UNCHANGED cur
         ELSE /\ Raise("commit")
              /\ UNCHANGED << status, title, links, grants, comments, tx >>
    /\ UNCHANGED << variant, uow, opIdx, executed, result, lk, envVars >>

\* operations run after the commit with a failure of one of them raised to
\* the caller
UnitOfWork_post_commit_raising ==
    /\ pc = "post"
    /\ opIdx <= Len(uow)
    /\ \E ok \in BOOLEAN :
         /\ executed' = Append(executed, [kind |-> uow[opIdx].kind,
                                          req |-> uow[opIdx].req,
                                          url |-> uow[opIdx].url,
                                          ok |-> ok])
         /\ IF ok
            THEN UNCHANGED << pc, cur >>
            ELSE Raise("post_commit")
    /\ opIdx' = opIdx + 1
    /\ UNCHANGED << dbVars, tx, uow, result, lk, envVars >>

\* after the commit the registered operations run, in registration order; a
\* failure of one is recorded and the next one still runs
UnitOfWork_post_commit ==
    /\ pc = "post"
    /\ opIdx <= Len(uow)
    /\ \E ok \in BOOLEAN :
         executed' = Append(executed, [kind |-> uow[opIdx].kind,
                                       req |-> uow[opIdx].req,
                                       url |-> uow[opIdx].url,
                                       ok |-> ok])
    /\ opIdx' = opIdx + 1
    /\ UNCHANGED << dbVars, tx, uow, pc, cur, result, lk, envVars >>

\* every registered operation has run: the caller gets its answer
Action_return ==
    /\ pc = "post"
    /\ opIdx > Len(uow)
    /\ result' = [req |-> cur.req, action |-> cur.action, outcome |-> "ok",
                  failedAt |-> "none"]
    /\ pc' = "returned"
    /\ cur' = NoAction
    /\ uow' = << >>
    /\ opIdx' = 1
    /\ UNCHANGED << dbVars, tx, executed, lk, envVars >>

\* an exception left execute() or the commit: the transaction is rolled
\* back, the unit-of-work is dropped and the caller gets the error
UnitOfWork_rollback ==
    /\ pc = "raised"
    /\ tx' = EmptyTx
    /\ uow' = << >>
    /\ opIdx' = 1
    /\ result' = [req |-> cur.req, action |-> cur.action, outcome |-> "error",
                  failedAt |-> cur.failedAt]
    /\ pc' = "returned"
    /\ cur' = NoAction
    /\ UNCHANGED << dbVars, executed, lk, envVars >>

\* the caller has its answer and the framework is ready for the next action
Caller_continue ==
    /\ pc = "returned"
    /\ pc' = "idle"
    /\ result' = NoResult
    /\ UNCHANGED << dbVars, tx, uow, cur, opIdx, executed, lk, envVars >>

\* ------------------------------------------------------ specification
Next ==
    \/ \E r \in RequestIds, v \in Variants : Create(r, v, DefaultPayload(v))
    \/ \E r \in RequestIds, a \in ActionNames, id \in Callers : Invoke(r, a, id)
    \/ SubmitAction_resolve
    \/ Action_super_execute
    \/ GuestAcceptAction_read
    \/ GuestAcceptAction_create_secret_link
    \/ GuestAcceptAction_register_parent
    \/ GuestAcceptAction_register_notification
    \/ GuestAcceptAction_create_comment
    \/ UserAcceptAction_resolve_creator
    \/ UserAcceptAction_resolve_topic
    \/ UserAcceptAction_create_grant
    \/ UserAcceptAction_register_parent
    \/ UserAcceptAction_register_notification
    \/ UnitOfWork_commit
    \/ UnitOfWork_post_commit
    \/ Action_return
    \/ UnitOfWork_rollback
    \/ Caller_continue

Spec == Init /\ [][Next]_vars

\* ---------------------------------------------------------- environment
MaxEnvRequests == 1

MaxDay == 1

Titles == {RecordTitle, "edited-title"}

\* values of secret_link_expiration a guest request may be created with
ExpirationInputs ==
    { << "0" >>, << "3", "0" >>, << "-", "1" >>, << "a", "b", "c" >>, << >> }

\* payloads a request of a type may be created with
PayloadInputs(v) ==
    IF v = "guest"
    THEN { [permission |-> "view", full_name |-> "A B", email |-> "a@b.com",
            secret_link_expiration |-> d] : d \in ExpirationInputs }
    ELSE { [permission |-> perm] : perm \in {"view", "preview"} }

\* the owner of the record changes its title
EditRecord(t) ==
    /\ pc = "idle"
    /\ t # recordTitle
    /\ recordTitle' = t
    /\ UNCHANGED << dbVars, tx, uow, pc, cur, opIdx, executed, result, lk,
                    payload, today, pl, st >>

\* midnight (UTC) passes between two actions
Tick ==
    /\ pc = "idle"
    /\ today < MaxDay
    /\ today' = today + 1
    /\ UNCHANGED << dbVars, tx, uow, pc, cur, opIdx, executed, result, lk,
                    payload, recordTitle, pl, st >>

\* the life of requests of every payload while the record is edited and
\* days pass
NextEnv ==
    \/ \E r \in 1..MaxEnvRequests, v \in Variants :
           \E p \in PayloadInputs(v) : Create(r, v, p)
    \/ \E r \in 1..MaxEnvRequests, v \in Variants :
           \E p \in PayloadInputs(v) : Create_invalid(r, v, p)
    \/ \E r \in RequestIds, a \in ActionNames, id \in Callers : Invoke(r, a, id)
    \/ \E t \in Titles : EditRecord(t)
    \/ Tick
    \/ SubmitAction_resolve
    \/ Action_super_execute
    \/ GuestAcceptAction_read
    \/ GuestAcceptAction_create_secret_link
    \/ GuestAcceptAction_register_parent
    \/ GuestAcceptAction_register_notification
    \/ GuestAcceptAction_create_comment
    \/ UserAcceptAction_resolve_creator
    \/ UserAcceptAction_resolve_topic
    \/ UserAcceptAction_create_grant
    \/ UserAcceptAction_register_parent
    \/ UserAcceptAction_register_notification
    \/ UnitOfWork_commit
    \/ UnitOfWork_post_commit
    \/ Action_return
    \/ UnitOfWork_rollback
    \/ Caller_continue

SpecEnv == Init /\ [][NextEnv]_vars

\* -------------------------------------------- secret_link_expiration
MaxLen == 3

\* the characters the texts of secret_link_expiration are made of
DayChars == {"0", "1", "3", "5", "6", "-", " ", "a", "b", "c"}

RECURSIVE TextsOfLen(_)
TextsOfLen(n) ==
    IF n = 0 THEN { << >> }
    ELSE { Append(t, ch) : t \in TextsOfLen(n - 1), ch \in DayChars }

DayTexts == UNION { TextsOfLen(n) : n \in 0..MaxLen }

\* the payload of a guest request asking for the expiration text
DaysPayload(text) ==
    [DefaultPayload("guest") EXCEPT !.secret_link_expiration = text]

\* one text of secret_link_expiration is examined
InitDays ==
    /\ variant = [r \in RequestIds |-> "none"]
    /\ status = [r \in RequestIds |-> "absent"]
    /\ title = [r \in RequestIds |-> NoTitle]
    /\ links = << >>
    /\ grants = << >>
    /\ comments = << >>
    /\ tx = EmptyTx
    /\ uow = << >>
    /\ pc = "idle"
    /\ cur = NoAction
    /\ opIdx = 1
    /\ executed = << >>
    /\ result = NoResult
    /\ lk = NoLink
    /\ payload = [r \in RequestIds |-> NoPayload]
    /\ today = 0
    /\ recordTitle = RecordTitle
    /\ pl \in { [NoLoad EXCEPT !.value = text] : text \in DayTexts }
    /\ st = NoStats

\* the validator runs on the text
ValidateDays ==
    /\ pl.out = NoLoad.out
    /\ pl' = [pl EXCEPT !.out = GuestAccessRequest_validate_days(pl.value)]
    /\ UNCHANGED << dbVars, tx, uow, pc, cur, opIdx, executed, result, lk,
                    payload, today, recordTitle, st >>

\* one guest request is made with the text, and lives its life
NextDays ==
    \/ ValidateDays
    \/ \E r \in RequestIds :
           /\ \A q \in RequestIds : status[q] = "absent"
           /\ Create(r, "guest", DaysPayload(pl.value))
    \/ \E r \in RequestIds : Create_invalid(r, "guest", DaysPayload(pl.value))
    \/ \E r \in RequestIds, a \in ActionNames, id \in Callers : Invoke(r, a, id)
    \/ SubmitAction_resolve
    \/ Action_super_execute
    \/ GuestAcceptAction_read
    \/ GuestAcceptAction_create_secret_link
    \/ GuestAcceptAction_register_parent
    \/ GuestAcceptAction_register_notification
    \/ GuestAcceptAction_create_comment
    \/ UnitOfWork_commit
    \/ UnitOfWork_post_commit
    \/ Action_return
    \/ UnitOfWork_rollback
    \/ Caller_continue

SpecDays == InitDays /\ [][NextDays]_vars

\* ------------------------------------------------- record statistics
MaxCount == 1

\* what running a statistics query gives: an exception, or counts
QueryOutcomes ==
    { [ok |-> FALSE, n |-> 0] } \cup { [ok |-> TRUE, n |-> n] : n \in 0..MaxCount }

\* result of a view query and of a download query that found n events
ViewResult(n) == [views |-> n, unique_views |-> n]

DownloadResult(n) == [downloads |-> n, unique_downloads |-> n, data_volume |-> n]

\* a local name nothing has been assigned to
Unbound == [unbound |-> TRUE]

\* {**a, **b}: the entries of b over those of a
DictMerge(a, b) == b @@ a

\* get_record_stats with the second try block left without its handler: an
\* exception of a download query leaves the function
get_record_stats_download_unhandled(q) ==
    LET viewsOk == q[1].ok /\ q[2].ok
        fallback1 == [views |-> 0, unique_views |-> 0]
        views == IF viewsOk THEN ViewResult(q[1].n) ELSE fallback1
        views_all == IF viewsOk THEN ViewResult(q[2].n) ELSE fallback1
    IN  IF q[3].ok /\ q[4].ok
        THEN [outcome |-> "returned",
              stats |-> [this_version |->
                             DictMerge(views, DownloadResult(q[3].n)),
                         all_versions |->
                             DictMerge(views_all, DownloadResult(q[4].n))]]
        ELSE [outcome |-> "raised", stats |-> << >>]

\* get_record_stats(recid, parent_recid), q being what the four queries
\* give in the order they are run: record-view, record-view-all-versions,
\* record-download, record-download-all-versions
get_record_stats(q) ==
    LET viewsOk == q[1].ok /\ q[2].ok
        fallback1 == [views |-> 0, unique_views |-> 0]
        views == IF viewsOk THEN ViewResult(q[1].n) ELSE fallback1
        views_all == IF viewsOk THEN ViewResult(q[2].n) ELSE fallback1
        downloads1 == IF viewsOk THEN Unbound ELSE fallback1
        downloads_all1 == IF viewsOk THEN Unbound ELSE fallback1
        downloadsOk == q[3].ok /\ q[4].ok
        fallback2 == [downloads |-> 0, unique_downloads |-> 0, data_volume |-> 0]
        downloads == IF downloadsOk THEN DownloadResult(q[3].n) ELSE fallback2
        downloads_all == IF downloadsOk THEN DownloadResult(q[4].n)
                         ELSE fallback2
    IN  IF Unbound \in {views, views_all, downloads, downloads_all}
        THEN [outcome |-> "raised", stats |-> << >>]
        ELSE [outcome |-> "returned",
              stats |-> [this_version |-> DictMerge(views, downloads),
                         all_versions |-> DictMerge(views_all, downloads_all)]]

\* the statistics of a record are asked for, the four queries behaving in
\* one of the ways they can
InitStats ==
    /\ variant = [r \in RequestIds |-> "none"]
    /\ status = [r \in RequestIds |-> "absent"]
    /\ title = [r \in RequestIds |-> NoTitle]
    /\ links = << >>
    /\ grants = << >>
    /\ comments = << >>
    /\ tx = EmptyTx
    /\ uow = << >>
    /\ pc = "idle"
    /\ cur = NoAction
    /\ opIdx = 1
    /\ executed = << >>
    /\ result = NoResult
    /\ lk = NoLink
    /\ payload = [r \in RequestIds |-> NoPayload]
    /\ today = 0
    /\ recordTitle = RecordTitle
    /\ pl = NoLoad
    /\ st \in { [NoStats EXCEPT !.q = << a, b, c, d >>] :
                  a \in QueryOutcomes, b \in QueryOutcomes,
                  c \in QueryOutcomes, d \in QueryOutcomes }

GetRecordStats ==
    /\ ~st.done
    /\ st' = [st EXCEPT !.done = TRUE, !.out = get_record_stats(st.q)]
    /\ UNCHANGED << dbVars, tx, uow, pc, cur, opIdx, executed, result, lk,
                    payload, today, recordTitle, pl >>

NextStats == GetRecordStats

SpecStats == InitStats /\ [][NextStats]_vars

\* ------------------------------------------------- link configuration
UiBases == {"/requests", "/communities/c/requests", "/me/requests"}

\* UserAccessRequest._update_link_config(**context_vars)
UserAccessRequest_update_link_config(ui) == ui \o "/access"

\* GuestAccessRequest._update_link_config(**context_vars): hasG says whether
\* flask.g has an identity, gAuth whether that identity provides
\* authenticated_user, ctx is the "identity" entry of context_vars ("absent"
\* when there is none)
GuestAccessRequest_update_link_config(ui, hasG, gAuth, ctx) ==
    LET identityAuth == IF ctx = "absent" THEN gAuth ELSE ctx = "authenticated"
        prefix == IF hasG /\ ~identityAuth THEN "/access" ELSE "/me"
    IN  ui \o prefix

\* the link configuration of a request of type v
update_link_config(v, ui, hasG, gAuth, ctx) ==
    IF v = "guest"
    THEN GuestAccessRequest_update_link_config(ui, hasG, gAuth, ctx)
    ELSE UserAccessRequest_update_link_config(ui)

LinkInputs ==
    { [variant |-> v, hasG |-> h, gAuth |-> a, ctx |-> c, ui |-> u,
       out |-> "unset"] :
        v \in Variants, h \in BOOLEAN, a \in BOOLEAN,
        c \in {"absent", "authenticated", "unauthenticated"}, u \in UiBases }

\* links of a request are generated under some request context
InitLink ==
    /\ variant = [r \in RequestIds |-> "none"]
    /\ status = [r \in RequestIds |-> "absent"]
    /\ title = [r \in RequestIds |-> NoTitle]
    /\ links = << >>
    /\ grants = << >>
    /\ comments = << >>
    /\ tx = EmptyTx
    /\ uow = << >>
    /\ pc = "idle"
    /\ cur = NoAction
    /\ opIdx = 1
    /\ executed = << >>
    /\ result = NoResult
    /\ lk \in { i \in LinkInputs : i.hasG \/ ~i.gAuth }
    /\ InitEnv

EvaluateLinkConfig ==
    /\ lk.out = "unset"
    /\ lk' = [lk EXCEPT !.out =
                 update_link_config(lk.variant, lk.ui, lk.hasG, lk.gAuth, lk.ctx)]
    /\ UNCHANGED << dbVars, tx, uow, pc, cur, opIdx, executed, result,
                    envVars >>

NextLink == EvaluateLinkConfig

SpecLink == InitLink /\ [][NextLink]_vars

\* ================================================================ claims
\* the changes of a stored request state, with the action that makes them
LegalTransitions ==
    { << "submit", "created", "submitted" >>,
      << "accept", "submitted", "accepted" >>,
      << "decline", "submitted", "declined" >>,
      << "cancel", "submitted", "cancelled" >>,
      << "expire", "submitted", "expired" >>,
      << "delete", "created", "removed" >> }

\* C1: for both request types the stored state of a request changes only by
\* submit (Created -> Submitted), accept (Submitted -> Accepted), decline
\* (Submitted -> Declined), cancel (Submitted -> Cancelled), expire
\* (Submitted -> Expired) and delete (Created -> removed), besides its
\* creation; a request in Accepted, Declined, Cancelled or Expired never
\* changes state again.
C1_OnlyLegalTransitions ==
    [][\A r \in RequestIds :
         /\ status'[r] # status[r] =>
              \/ status[r] = "absent" /\ status'[r] = "created"
              \/ /\ cur.req = r
                 /\ << cur.action, status[r], status'[r] >> \in LegalTransitions
         /\ status[r] \in TerminalStates => status'[r] = status[r]
         /\ status[r] = "removed" => status'[r] = "removed"]_vars

\* a guest request was declined and a user request was accepted
C1_Witness ==
    \E r, q \in RequestIds :
        /\ variant[r] = "guest" /\ status[r] = "declined"
        /\ variant[q] = "user" /\ status[q] = "accepted"

\* the elements of a sequence that satisfy a test, in order
RECURSIVE SelectOrigin(_, _)
SelectOrigin(s, r) ==
    IF s = << >> THEN << >>
    ELSE IF Head(s).origin = r
         THEN << Head(s) >> \o SelectOrigin(Tail(s), r)
         ELSE SelectOrigin(Tail(s), r)

RECURSIVE SelectReq(_, _)
SelectReq(s, r) ==
    IF s = << >> THEN << >>
    ELSE IF Head(s).req = r
         THEN << Head(s) >> \o SelectReq(Tail(s), r)
         ELSE SelectReq(Tail(s), r)

\* stored secret links and grants whose origin names request r
LinksOf(r) == SelectOrigin(links, r)
GrantsOf(r) == SelectOrigin(grants, r)
ArtifactCount(r) == Len(LinksOf(r)) + Len(GrantsOf(r))

\* stored comments of request r, and the operations run for it
CommentsOf(r) == SelectReq(comments, r)
ExecutedFor(r) == SelectReq(executed, r)

OpOf(e) == [kind |-> e.kind, req |-> e.req, url |-> e.url]

OpsOf(s) == [i \in DOMAIN s |-> OpOf(s[i])]

\* C3: operations registered with the unit-of-work during an action run only
\* after the state change of the action has been committed, in the order of
\* their registration and each at most once; when the commit fails (or the
\* action fails before it) none of them runs.
C3_CommitGatedInOrderOnce ==
    /\ [](\A r \in RequestIds :
            ExecutedFor(r) # << >> => status[r] = "accepted")
    /\ [](pc = "post" =>
            OpsOf(ExecutedFor(cur.req)) = SubSeq(uow, 1, opIdx - 1))
    /\ [](\A r \in RequestIds :
            \A i, j \in DOMAIN ExecutedFor(r) :
                i # j => OpOf(ExecutedFor(r)[i]) # OpOf(ExecutedFor(r)[j]))
    /\ [](pc = "returned" /\ result.outcome = "error" =>
            ExecutedFor(result.req) = << >>)
    /\ [][executed' # executed =>
            /\ pc = "post"
            /\ opIdx <= Len(uow)
            /\ Len(executed') = Len(executed) + 1
            /\ OpOf(executed'[Len(executed')]) = uow[opIdx]
            /\ opIdx' = opIdx + 1]_vars

\* both operations of an accepted request have run, reindex first, and the
\* commit of another accept has failed
C3_Witness ==
    \E r \in RequestIds :
        /\ Len(ExecutedFor(r)) = 2
        /\ ExecutedFor(r)[1].kind = "ParentRecordCommitOp"
        /\ ExecutedFor(r)[2].kind = "NotificationOp"
        /\ pc = "returned"
        /\ result.req # r
        /\ result.action = "accept"
        /\ result.failedAt = "commit"

\* C4: the access artifact of an accept is issued with the system identity
\* for both request types: the identity given to create_secret_link (guest)
\* and to create_grant (user) is the system identity, whoever invoked accept.
C4_IssuedWithSystemIdentity ==
    /\ \A i \in DOMAIN (links \o tx.links) :
           (links \o tx.links)[i].identity = SystemIdentity
    /\ \A i \in DOMAIN (grants \o tx.grants) :
           (grants \o tx.grants)[i].identity = SystemIdentity

PendingArtifactCount(r) ==
    Len(SelectOrigin(links \o tx.links, r))
        + Len(SelectOrigin(grants \o tx.grants, r))

C7_AcceptRefusedUnlessSubmitted ==
    /\ [][pc = "idle" /\ cur'.action = "accept" =>
            status[cur'.req] = "submitted"]_vars
    /\ [][pc = "idle" /\ result'.outcome = "rejected" =>
            /\ pc' = "returned"
            /\ uow = << >> /\ tx = EmptyTx
            /\ UNCHANGED << dbVars, tx, uow, cur, executed >>]_vars
    /\ [](result.outcome = "rejected" /\ result.action = "accept" =>
            status[result.req] # "submitted")
    /\ [](pc \notin {"idle", "returned", "post"} /\ cur.action = "accept" =>
            status[cur.req] = "submitted")

\* accept was refused on a declined request and on a request still Created
C7_Witness ==
    /\ pc = "returned"
    /\ result.action = "accept"
    /\ result.outcome = "rejected"
    /\ status[result.req] = "declined"
    /\ \E q \in RequestIds : status[q] = "created"

\* C8: when the resolution of the topic record (or, for a user request, of
\* the creator) fails during accept, the action aborts with no parent reindex
\* and no notification registered with the unit-of-work, no artifact issued
\* and the request still Submitted.
C8_ResolutionFailureRegistersNothing ==
    /\ cur.action = "accept"
         /\ cur.failedAt \in {"resolve_topic", "resolve_creator"} =>
            /\ pc = "raised"
            /\ uow = << >>
            /\ tx = EmptyTx
            /\ PendingArtifactCount(cur.req) = 0
            /\ ReqStatus(cur.req) = "submitted"
    /\ result.action = "accept"
         /\ result.failedAt \in {"resolve_topic", "resolve_creator"} =>
            /\ result.outcome = "error"
            /\ uow = << >>
            /\ ArtifactCount(result.req) = 0
            /\ ExecutedFor(result.req) = << >>
            /\ status[result.req] = "submitted"

\* the topic of a user request could not be resolved during accept
C8_Witness ==
    /\ pc = "raised"
    /\ cur.action = "accept"
    /\ cur.failedAt = "resolve_topic"
    /\ variant[cur.req] = "user"

\* the identity a link configuration is evaluated for: the one handed in,
\* else the one of the request context, else none
EvaluatingIdentity(l) ==
    IF l.ctx # "absent" THEN l.ctx
    ELSE IF l.hasG
         THEN (IF l.gAuth THEN "authenticated" ELSE "unauthenticated")
         ELSE "absent"

\* C9: the link prefix is "/me" for a guest request only when the evaluating
\* identity is present and authenticated; for a guest request with an absent
\* or unauthenticated evaluating identity, and for every user request, it is
\* "/access".
C9_PrefixByEvaluatingIdentity ==
    lk.out # "unset" =>
        lk.out = lk.ui \o (IF lk.variant = "guest"
                              /\ EvaluatingIdentity(lk) = "authenticated"
                           THEN "/me" ELSE "/access")

\* operations of a kind in a sequence of operations
RECURSIVE CountKind(_, _)
CountKind(s, k) ==
    IF s = << >> THEN 0
    ELSE (IF Head(s).kind = k THEN 1 ELSE 0) + CountKind(Tail(s), k)

\* C10: a request has exactly one comment when it is an accepted guest
\* request and none otherwise (none for any user request); the comment is
\* authored by the system identity, carries the access URL of the issued
\* link and is created with notification suppressed, so no further
\* notification is registered or dispatched for it.
C10_OneSilentCommentIffGuestAccepted ==
    /\ \A r \in RequestIds :
           /\ Len(CommentsOf(r)) =
                 IF variant[r] = "guest" /\ status[r] = "accepted"
                 THEN 1 ELSE 0
           /\ CountKind(ExecutedFor(r), "NotificationOp") <= 1
    /\ \A i \in DOMAIN (comments \o tx.comments) :
           LET c == (comments \o tx.comments)[i]
               l == SelectOrigin(links \o tx.links, c.req)
           IN  /\ c.author = SystemIdentity
               /\ ~c.notify
               /\ Len(l) = 1
               /\ c.url = [self_html |-> RecordSelfHtml, token |-> l[1].token]
    /\ CountKind(uow, "NotificationOp") <= 1

\* an accepted guest request with its comment next to an accepted user
\* request without one, all operations run
C10_Witness ==
    \E r, q \in RequestIds :
        /\ variant[r] = "guest" /\ status[r] = "accepted"
        /\ Len(CommentsOf(r)) = 1
        /\ Len(ExecutedFor(r)) = 2
        /\ variant[q] = "user" /\ status[q] = "accepted"
        /\ Len(CommentsOf(q)) = 0
        /\ Len(ExecutedFor(q)) = 2

\* C11: the title of a request is unset until submit, is set once, by the
\* submit action, to the title the topic record has at that moment, and no
\* later action (accept, decline, cancel, expire, a refused second submit)
\* and no later change of the title of the record changes it.
C11_TitleStampedOnceAtSubmit ==
    /\ [](\A r \in RequestIds :
            /\ status[r] \in {"absent", "created", "removed"} =>
                   title[r] = NoTitle
            /\ status[r] \in {"submitted"} \cup TerminalStates =>
                   title[r] \in Titles)
    /\ [][\A r \in RequestIds :
            title'[r] # title[r] =>
                /\ title[r] = NoTitle
                /\ cur.req = r /\ cur.action = "submit"
                /\ status[r] = "created" /\ status'[r] = "submitted"
                /\ title'[r] = recordTitle]_vars

\* an accepted request keeps the title it was submitted with although the
\* record has a new title since
C11_Witness ==
    \E r \in RequestIds :
        /\ status[r] = "accepted"
        /\ title[r] = RecordTitle
        /\ recordTitle = "edited-title"


\* the decimal digit of a number below ten
DigitChar(d) == CHOOSE ch \in Digits : DigitValue(ch) = d

\* the decimal text of a natural number
RECURSIVE Render(_)
Render(n) ==
    IF n < 10 THEN << DigitChar(n) >>
    ELSE Append(Render(n \div 10), DigitChar(n % 10))

\* the texts of the natural numbers a text of MaxLen characters can denote
NaturalTexts == { Render(n) : n \in 0..(10^MaxLen - 1) }

RECURSIVE DropZeros(_)
DropZeros(s) ==
    IF s # << >> /\ Head(s) = "0" THEN DropZeros(Tail(s)) ELSE s

\* the text denotes an integer that is not negative: blanks around it, one
\* sign, zeros, then the text of a natural number, which is 0 after a minus
DenotesDays(s) ==
    LET t == StripRight(StripLeft(s))
        minus == t # << >> /\ Head(t) = "-"
        u == IF t # << >> /\ Head(t) \in {"-", "+"} THEN Tail(t) ELSE t
        z == DropZeros(u)
    IN  \/ u # << >> /\ z = << >>
        \/ ~minus /\ z \in NaturalTexts

\* the one error of the validator
DaysError ==
    [error |-> "ValidationError", message |-> "Not a valid number of days.",
     field_name |-> "secret_link_expiration"]

IssuedLinks == links \o tx.links

IssuedGrantsOf(r) == SelectOrigin(grants \o tx.grants, r)

\* C14: accepting a user request creates a grant whose subject is the user
\* the request was created by (type "user", the id of the resolved creator
\* as text), whose permission is the permission of the payload and whose
\* origin is the request; the grant has no expiration and no token, no secret
\* link is made for the request and its notification carries no access URL
C14_GrantForCreatorWithPayloadPermission ==
    \A r \in RequestIds :
        variant[r] = "user" =>
            /\ \A i \in DOMAIN IssuedGrantsOf(r) :
                   LET gr == IssuedGrantsOf(r)[i]
                   IN  /\ gr.subject =
                              [type |-> "user", id |-> ToString(Creator(r))]
                       /\ gr.permission = payload[r].permission
                       /\ gr.origin = r
                       /\ DOMAIN gr \cap {"expires_at", "token"} = {}
            /\ status[r] = "accepted" => Len(GrantsOf(r)) = 1
            /\ SelectOrigin(IssuedLinks, r) = << >>
            /\ \A i \in DOMAIN uow :
                   uow[i].req = r => uow[i].url = NoUrl
            /\ \A i \in DOMAIN ExecutedFor(r) : ExecutedFor(r)[i].url = NoUrl
            /\ SelectReq(comments \o tx.comments, r) = << >>

C14_Witness ==
    \E r \in RequestIds :
        /\ variant[r] = "user" /\ status[r] = "accepted"
        /\ payload[r].permission = "preview"
        /\ Len(GrantsOf(r)) = 1
        /\ GrantsOf(r)[1].permission = "preview"
        /\ Len(ExecutedFor(r)) = 2


\* the kinds of the operations registered with the unit-of-work, in order
KindsOf(s) == [i \in DOMAIN s |-> s[i].kind]

AcceptOps == << "ParentRecordCommitOp", "NotificationOp" >>

\* the artifacts issued within the running action and not yet committed
TxArtifactCount == Len(tx.links) + Len(tx.grants)

\* C15: within an accept the artifact is issued first, then one parent
\* reindex operation is registered, then one notification operation, then
\* the state of the request flips from Submitted to Accepted and, for a guest
\* request, the comment is appended last; a request is never Accepted before
\* its artifact exists and both operations are registered
C15_AcceptStepOrder ==
    /\ [](/\ KindsOf(uow) \in { SubSeq(AcceptOps, 1, n) : n \in 0..2 }
          /\ uow # << >> /\ pc # "post" => TxArtifactCount = 1
          /\ TxArtifactCount <= 1
          /\ tx.status = "accepted" =>
                 /\ KindsOf(uow) = AcceptOps
                 /\ TxArtifactCount = 1
                 /\ status[cur.req] = "submitted"
          /\ tx.comments # << >> =>
                 /\ tx.status = "accepted"
                 /\ variant[cur.req] = "guest"
                 /\ Len(tx.comments) = 1
          /\ \A r \in RequestIds :
                 status[r] = "accepted" =>
                     /\ ArtifactCount(r) = 1
                     /\ (cur.req = r /\ pc = "post") => KindsOf(uow) = AcceptOps)
    /\ [][/\ TxArtifactCount' > TxArtifactCount =>
                 /\ uow = << >> /\ uow' = << >>
                 /\ tx.status = "unchanged" /\ tx'.status = "unchanged"
                 /\ tx.comments = << >> /\ tx'.comments = << >>
          /\ Len(uow') > Len(uow) =>
                 /\ TxArtifactCount = 1
                 /\ tx.status = "unchanged" /\ tx'.status = "unchanged"
                 /\ tx.comments = << >> /\ tx'.comments = << >>
          /\ (tx'.status = "accepted" /\ tx.status # "accepted") =>
                 /\ KindsOf(uow) = AcceptOps /\ uow' = uow
                 /\ TxArtifactCount = 1
                 /\ tx.comments = << >> /\ tx'.comments = << >>
          /\ Len(tx'.comments) > Len(tx.comments) =>
                 /\ tx.status = "accepted"
                 /\ pc' = "commit"
          /\ \A r \in RequestIds :
                 (status'[r] = "accepted" /\ status[r] # "accepted") =>
                     /\ status[r] = "submitted"
                     /\ KindsOf(uow) = AcceptOps
                     /\ ArtifactCount(r)' = 1
                     /\ Len(CommentsOf(r))' =
                            IF variant[r] = "guest" THEN 1 ELSE 0]_vars

\* a guest accept just before its commit: link issued, both operations
\* registered, state flipped, comment appended
C15_Witness ==
    /\ pc = "commit" /\ cur.action = "accept"
    /\ variant[cur.req] = "guest"
    /\ Len(tx.links) = 1
    /\ KindsOf(uow) = AcceptOps
    /\ tx.status = "accepted"
    /\ Len(tx.comments) = 1
    /\ status[cur.req] = "submitted"


\* C16: the link prefix is a function of the identity supplied to the
\* evaluation and of the request type alone: whatever identity the ambient
\* request context holds, or whether it holds one at all, an evaluation with
\* the same supplied identity and type gives the same result
C16_PrefixIndependentOfAmbientContext ==
    lk.out # "unset" =>
        \A h, a \in BOOLEAN :
            (h \/ ~a) =>
                update_link_config(lk.variant, lk.ui, h, a, lk.ctx) = lk.out


\* record.links['self_html'] followed by "?token=" and the token
AccessUrl(token) == [self_html |-> RecordSelfHtml, token |-> token]

\* the notification operations in a sequence of operations
RECURSIVE Notifications(_)
Notifications(s) ==
    IF s = << >> THEN << >>
    ELSE IF Head(s).kind = "NotificationOp"
         THEN << Head(s) >> \o Notifications(Tail(s))
         ELSE Notifications(Tail(s))

\* C17: for every accepted guest request the access URL is the self_html
\* link of the record followed by "?token=" and the token of the secret link
\* issued in that accept; the same URL is given to the acceptance
\* notification and stands in the comment; the origin of the secret link is
\* the request and its description carries the full_name and the email of
\* the payload of the request
C17_AccessUrlOfIssuedLink ==
    \A r \in RequestIds :
        (variant[r] = "guest" /\ status[r] = "accepted") =>
            /\ Len(LinksOf(r)) = 1
            /\ LinksOf(r)[1].origin = r
            /\ LinksOf(r)[1].description =
                   << "Requested by guest: ", payload[r].full_name, " (",
                      payload[r].email, ")" >>
            /\ \A q \in RequestIds \ {r} :
                   \A i \in DOMAIN LinksOf(q) :
                       LinksOf(q)[i].token # LinksOf(r)[1].token
            /\ Len(CommentsOf(r)) = 1
            /\ CommentsOf(r)[1].url = AccessUrl(LinksOf(r)[1].token)
            /\ \A i \in DOMAIN Notifications(ExecutedFor(r)) :
                   Notifications(ExecutedFor(r))[i].url =
                       AccessUrl(LinksOf(r)[1].token)
            /\ (cur.req = r /\ pc = "post") =>
                   /\ Len(Notifications(uow)) = 1
                   /\ Notifications(uow)[1].url = AccessUrl(LinksOf(r)[1].token)

\* two accepted guest requests, the one made second accepted first, each
\* notified of the URL with the token of its own link
C17_Witness ==
    \E r, q \in RequestIds :
        /\ r < q
        /\ variant[r] = "guest" /\ status[r] = "accepted"
        /\ variant[q] = "guest" /\ status[q] = "accepted"
        /\ LinksOf(q)[1].token < LinksOf(r)[1].token
        /\ Len(Notifications(ExecutedFor(r))) = 1
        /\ Notifications(ExecutedFor(r))[1].url = AccessUrl(LinksOf(r)[1].token)
        /\ Len(Notifications(ExecutedFor(q))) = 1


\* the actions the request types take from the framework as they are
DefaultActions == {"create", "delete", "cancel", "decline", "expire"}

\* C18: create, delete, cancel, decline and expire, for both request types,
\* change the state or the existence of their request and nothing else: no
\* secret link and no grant is issued, no operation is registered with the
\* unit-of-work, no comment is appended, and the title and the payload of the
\* request stay as they are (create gives the new request its payload)
C18_DefaultActionsOnlyChangeState ==
    /\ [](cur.action \in DefaultActions =>
              /\ uow = << >>
              /\ tx.links = << >> /\ tx.grants = << >> /\ tx.comments = << >>
              /\ tx.title = NoTitle)
    /\ [][(cur.action \in DefaultActions \/ cur'.action \in DefaultActions) =>
              /\ UNCHANGED << links, grants, comments, title, payload,
                              executed, variant >>
              /\ uow' = << >>
              /\ \A q \in RequestIds :
                     status'[q] # status[q] =>
                         /\ q = cur.req
                         /\ status[q] \in {"created", "submitted"}
                         /\ status'[q] \in {"removed", "cancelled",
                                            "declined", "expired"}]_vars
    /\ [][\A r \in RequestIds :
              (status[r] = "absent" /\ status'[r] # "absent") =>
                  /\ status'[r] = "created"
                  /\ UNCHANGED << links, grants, comments, title, executed,
                                  uow, tx >>
                  /\ \A q \in RequestIds \ {r} :
                         /\ status'[q] = status[q]
                         /\ payload'[q] = payload[q]
                         /\ variant'[q] = variant[q]]_vars

\* a declined user request next to an expired guest request: nothing was
\* issued, run or written for either, and both keep the title of the submit
C18_Witness ==
    \E r, q \in RequestIds :
        /\ variant[r] = "user" /\ status[r] = "declined"
        /\ variant[q] = "guest" /\ status[q] = "expired"
        /\ links = << >> /\ grants = << >> /\ comments = << >>
        /\ executed = << >>
        /\ title[r] = RecordTitle /\ title[q] = RecordTitle
        /\ pc = "returned" /\ result.outcome = "ok"


ViewKeys == {"views", "unique_views"}

DownloadKeys == {"downloads", "unique_downloads", "data_volume"}

\* every key of a set has the value n in a dictionary
AllAre(dict, keys, n) == \A k \in keys : dict[k] = n

\* C19: get_record_stats returns whatever the four queries do, never raising:
\* the result has this_version and all_versions, each with the view keys and
\* the download keys; when a view query fails the view statistics of both
\* are 0 and the download statistics are the ones fetched; when a download
\* query fails the download statistics of both are 0 and the view statistics
\* are the ones fetched
C19_StatsSurviveQueryFailures ==
    st.done =>
        LET q == st.q
            stats == st.out.stats
            viewsFail == ~q[1].ok \/ ~q[2].ok
            downloadsFail == ~q[3].ok \/ ~q[4].ok
        IN  /\ st.out.outcome = "returned"
            /\ DOMAIN stats = {"this_version", "all_versions"}
            /\ DOMAIN stats.this_version = ViewKeys \cup DownloadKeys
            /\ DOMAIN stats.all_versions = ViewKeys \cup DownloadKeys
            /\ AllAre(stats.this_version, ViewKeys,
                      IF viewsFail THEN 0 ELSE q[1].n)
            /\ AllAre(stats.all_versions, ViewKeys,
                      IF viewsFail THEN 0 ELSE q[2].n)
            /\ AllAre(stats.this_version, DownloadKeys,
                      IF downloadsFail THEN 0 ELSE q[3].n)
            /\ AllAre(stats.all_versions, DownloadKeys,
                      IF downloadsFail THEN 0 ELSE q[4].n)

\* the views of all versions cannot be fetched while the downloads can
C19_Witness ==
    /\ st.done
    /\ st.q[1] = [ok |-> TRUE, n |-> 1] /\ ~st.q[2].ok
    /\ st.q[3] = [ok |-> TRUE, n |-> 1] /\ st.q[4] = [ok |-> TRUE, n |-> 1]
    /\ st.out.stats.this_version.views = 0
    /\ st.out.stats.this_version.downloads = 1
    /\ st.out.stats.all_versions.data_volume = 1

====
